---- MODULE Spec2Model ----
(***************************************************************************)
(* Inspection validation and lot disposition of the quality dashboard.     *)
(*                                                                         *)
(* The state is the React state of DashboardContent (inspectionSpecs,      *)
(* lotReleased, lotRejected), of InspectorView (confirmDialog) and of      *)
(* SessionProvider (scannedLot, currentUser, currentRole, isLoading); the  *)
(* useInspection hook keeps the same three inspection cells and adds       *)
(* resetSpecs.  Measurements are integers (a fixed-point reading of the    *)
(* step 0.01 inputs); null is the empty sequence, a number v is <<v>>.     *)
(***************************************************************************)
EXTENDS Integers, Sequences, FiniteSets, TLC

\* ------------------------------------------------------------------------
\* Bounds
\* ------------------------------------------------------------------------
MaxSpecs == 2
MaxVal == 3
MaxCertCalls == 2
MaxInFlight == 2
MaxIds == 3
MaxQty == 3
MaxShipments == 3

\* ------------------------------------------------------------------------
\* Values
\* ------------------------------------------------------------------------
None == <<>>
Some(v) == <<v>>

\* (min, max) pairs of the characteristic templates
Tolerances == {<<1, 2>>, <<2, 2>>}

\* lib/data INITIAL_SPECS, and the initialSpecs parameter of useInspection:
\* a list of characteristics with ids 1..n, no reading, status pending
Templates ==
    UNION { { [i \in 1..n |-> [id |-> i, min |-> f[i][1], max |-> f[i][2],
                               actual |-> None, status |-> "pending"]]
              : f \in [1..n -> Tolerances] }
            : n \in 0..MaxSpecs }

\* what the number input hands to onChange: "" or a decimal numeral
NumeralTable ==
    { <<"0", 0>>, <<"1", 1>>, <<"2", 2>>, <<"3", 3>>, <<"4", 4>>, <<"5", 5>>,
      <<"1.0", 1>>, <<"02", 2>> }

InputTexts == {""} \cup { p[1] : p \in { q \in NumeralTable : q[2] <= MaxVal } }

\* Number.parseFloat on the texts above
ParseFloat(text) == (CHOOSE p \in NumeralTable : p[1] = text)[2]

Roles == {"operator", "inspector", "manager"}

\* lib/data MOCK_CREDENTIALS (the demo PINs shown by the AuthModal)
MOCK_CREDENTIALS ==
    { [pin |-> "1234", role |-> "inspector", name |-> "Inspector"],
      [pin |-> "5678", role |-> "manager", name |-> "Manager"] }

Pins == {"1234", "5678", "0000"}

\* scanned texts, as character sequences
LotInputs ==
    { <<"S", "T", "D", "2", "6", "0">>,
      <<" ", "s", "t", "d", "2", "6", "0">>,
      <<"S", "T", "-", "1">>,
      <<"2", "6", "-", "0", "1", "2">> }

VALID_LOT_PREFIXES == { <<"S", "T", "D">> }

\* toast texts
MsgFailures == "Cannot approve: there are out-of-tolerance readings"
MsgIncomplete == "Cannot approve: not all characteristics inspected"
MsgApproved == "Lot #296039 APPROVED for release"
MsgCertError == "Error generating certificate"
MsgRejected == "Lot #296039 REJECTED"
MsgEndShift == "Turno Finalizado"
MsgAuthOk == "Autenticado"
MsgAuthFail == "PIN Incorrecto o Sin Permisos"
MsgScanFail == "Formato de Lote Invalido"
MsgScanOk == "Lote Escaneado"

VARIABLES
    initialSpecs,   \* the template the session was created from
    specs,          \* inspectionSpecs / specs
    lotReleased,
    lotRejected,
    confirmDialog,  \* "approve", "reject" or "null"
    scannedLot,     \* None or Some(lot number)
    currentUser,    \* None or Some([name, role])
    currentRole,
    isLoading,
    scanRequests,   \* lot numbers whose lookup is in flight
    notices,        \* the toasts raised by the handler that ran last
    certLog,        \* outcome of each generateCertificatePDF call
    uncaught,       \* the handler that ran last let an exception escape
    fields,         \* DynamicInspectionForm: the part's Field Definitions
    values,         \* useDynamicInspection: the Inspection Values
    closureValues,  \* the values prop captured by the callbacks of the last render
    parts,          \* PartConfigProvider state
    revisions,
    pcLoading,      \* PartConfigProvider.isLoading
    storedParts,    \* localStorage item rbc_qc_parts: None or Some(JSON text)
    storedRevisions,\* localStorage item rbc_qc_revisions
    nextId,         \* ids handed out by generateId so far
    effectThrew,    \* a persist effect let an exception escape
    totalQty,       \* PartialShipmentTracker: the order's total quantity
    shipments,      \* usePartialShipments: recorded quantities, oldest first
    shipmentsProp,  \* the shipments prop of the tracker's last render
    showAddDialog,
    inputQty,       \* text of the quantity input
    inputError      \* None or Some(message)

vars == <<initialSpecs, specs, lotReleased, lotRejected, confirmDialog,
          scannedLot, currentUser, currentRole, isLoading, scanRequests,
          notices, certLog, uncaught,
          fields, values, closureValues,
          parts, revisions, pcLoading, storedParts, storedRevisions, nextId,
          effectThrew,
          totalQty, shipments, shipmentsProp, showAddDialog, inputQty,
          inputError>>

shipVars == <<totalQty, shipments, shipmentsProp, showAddDialog, inputQty,
              inputError>>

dynVars == <<fields, values, closureValues>>

partVars == <<parts, revisions, pcLoading, storedParts, storedRevisions, nextId,
              effectThrew>>

dashboardVars == <<initialSpecs, specs, lotReleased, lotRejected, confirmDialog,
                   scannedLot, currentUser, currentRole, isLoading, scanRequests,
                   notices, certLog, uncaught>>

\* what the handlers of the dashboard page never touch
notInspection == <<dynVars, partVars, shipVars>>

\* what the part configuration provider never touches
notParts == <<dashboardVars, dynVars, shipVars>>

\* what the dynamic inspection form never touches
notDyn == <<dashboardVars, partVars, shipVars>>

\* what the shipment tracker never touches
notShip == <<dashboardVars, dynVars, partVars>>

sessionVars == <<scannedLot, currentUser, currentRole, isLoading, scanRequests>>

inspectionVars == <<specs, lotReleased, lotRejected>>

\* ------------------------------------------------------------------------
\* Static spec validator
\* ------------------------------------------------------------------------
\* variant: exclusive bounds
calculateStatus_Strict(actual, min, max) ==
    IF actual = None THEN "pending"
    ELSE IF actual[1] > min /\ actual[1] < max THEN "pass" ELSE "fail"

calculateStatus(actual, min, max) ==
    IF actual = None THEN "pending"
    ELSE IF actual[1] >= min /\ actual[1] <= max THEN "pass" ELSE "fail"

\* useInspection.updateSpec: the updater passed to setSpecs
\* variant: an unknown id adds an entry
updateSpec_Upsert(prevSpecs, id, actual) ==
    IF \E i \in 1..Len(prevSpecs) : prevSpecs[i].id = id
    THEN [i \in 1..Len(prevSpecs) |->
            IF prevSpecs[i].id # id THEN prevSpecs[i]
            ELSE [prevSpecs[i] EXCEPT
                    !.actual = actual,
                    !.status = calculateStatus(actual, prevSpecs[i].min,
                                               prevSpecs[i].max)]]
    ELSE Append(prevSpecs, [id |-> id, min |-> 0, max |-> 0, actual |-> actual,
                            status |-> calculateStatus(actual, 0, 0)])
updateSpec(prevSpecs, id, actual) ==
    [i \in 1..Len(prevSpecs) |->
        IF prevSpecs[i].id # id THEN prevSpecs[i]
        ELSE [prevSpecs[i] EXCEPT
                !.actual = actual,
                !.status = calculateStatus(actual, prevSpecs[i].min, prevSpecs[i].max)]]

\* DashboardContent.handleUpdateSpec: the updater passed to setInspectionSpecs
handleUpdateSpec(prev, id, actual) ==
    [i \in 1..Len(prev) |->
        IF prev[i].id # id THEN prev[i]
        ELSE IF actual = None
             THEN [prev[i] EXCEPT !.actual = None, !.status = "pending"]
             ELSE [prev[i] EXCEPT
                     !.actual = actual,
                     !.status = IF actual[1] >= prev[i].min /\ actual[1] <= prev[i].max
                                THEN "pass" ELSE "fail"]]

\* useInspection derived state
passCount(s) == Cardinality({i \in 1..Len(s) : s[i].status = "pass"})
failCount(s) == Cardinality({i \in 1..Len(s) : s[i].status = "fail"})
pendingCount(s) == Cardinality({i \in 1..Len(s) : s[i].status = "pending"})
\* variant: vacuous truth on the empty list
allPassed_Vacuous(s) == passCount(s) = Len(s)
allPassed(s) == passCount(s) = Len(s) /\ Len(s) > 0
hasFailed(s) == failCount(s) > 0

\* InspectorView derived state
hasFailures(s) == \E i \in 1..Len(s) : s[i].status = "fail"
\* variant: some() where every() is meant
allInspected_Some(s) == \E i \in 1..Len(s) : s[i].actual # None
allInspected(s) == \A i \in 1..Len(s) : s[i].actual # None
allPass(s) == allInspected(s) /\ ~hasFailures(s)

\* ------------------------------------------------------------------------
\* Rendering conditions
\* ------------------------------------------------------------------------
isKioskModeOf(lot) == lot = None
isKioskMode == isKioskModeOf(scannedLot)
isInspectionReadOnly == currentRole # "inspector"

\* DashboardContent mounts InspectorView for an inspector outside kiosk mode
InspectorViewMountedFor_NotManager(lot, role) ==
    ~isKioskModeOf(lot) /\ role # "manager"
InspectorViewMountedFor(lot, role) == ~isKioskModeOf(lot) /\ role = "inspector"
InspectorViewMounted == InspectorViewMountedFor(scannedLot, currentRole)

\* confirmDialog is local state of InspectorView: it is lost on unmount
DialogAfter(lot, role) ==
    IF InspectorViewMountedFor(lot, role) THEN confirmDialog ELSE "null"

\* variant: the inputs follow the role gate only
InputDisabled_RoleOnly == currentRole # "inspector"

\* the reading inputs are disabled once the lot is finalized or read-only
InputDisabled == lotReleased \/ lotRejected \/ isInspectionReadOnly

\* variants: one branch of the Final Verdict conditional is missing
VerdictButtonsShown_OnlyReleased == ~lotReleased
VerdictButtonsShown_OnlyRejected == ~lotRejected

\* the APPROVE RELEASE / REJECT LOT buttons replace nothing else: they are
\* rendered only while neither flag is set
VerdictButtonsShown == ~lotReleased /\ ~lotRejected

\* ------------------------------------------------------------------------
\* Init
\* ------------------------------------------------------------------------
\* no dynamic form mounted
DynIdle ==
    /\ fields = <<>>
    /\ values = <<>>
    /\ closureValues = <<>>

\* no PartConfigProvider mounted
PartsIdle ==
    /\ parts = <<>>
    /\ revisions = <<>>
    /\ pcLoading = TRUE
    /\ storedParts = None
    /\ storedRevisions = None
    /\ nextId = 0
    /\ effectThrew = FALSE

\* no dashboard page mounted
DashboardIdle ==
    /\ initialSpecs = <<>>
    /\ specs = <<>>
    /\ lotReleased = FALSE
    /\ lotRejected = FALSE
    /\ confirmDialog = "null"
    /\ scannedLot = None
    /\ currentUser = None
    /\ currentRole = "operator"
    /\ isLoading = FALSE
    /\ scanRequests = <<>>
    /\ notices = <<>>
    /\ certLog = <<>>
    /\ uncaught = FALSE

\* no shipment tracker mounted
ShipIdle ==
    /\ totalQty = 0
    /\ shipments = <<>>
    /\ shipmentsProp = <<>>
    /\ showAddDialog = FALSE
    /\ inputQty = ""
    /\ inputError = None

Init ==
    /\ DynIdle
    /\ PartsIdle
    /\ ShipIdle
    /\ initialSpecs \in Templates
    /\ specs = initialSpecs
    /\ lotReleased = FALSE
    /\ lotRejected = FALSE
    /\ confirmDialog = "null"
    /\ scannedLot = None
    /\ currentUser = None
    /\ currentRole = "operator"
    /\ isLoading = FALSE
    /\ scanRequests = <<>>
    /\ notices = <<>>
    /\ certLog = <<>>
    /\ uncaught = FALSE

\* ------------------------------------------------------------------------
\* InspectorView
\* ------------------------------------------------------------------------
\* onClick of APPROVE RELEASE / REJECT LOT: setConfirmDialog(kind)
openConfirmDialog(kind) ==
    /\ InspectorViewMounted
    /\ VerdictButtonsShown
    /\ confirmDialog' = kind
    /\ notices' = <<>>
    /\ uncaught' = FALSE
    /\ UNCHANGED <<initialSpecs, inspectionVars, sessionVars, certLog>>
    /\ UNCHANGED notInspection

\* Cancel, or the dialog's onOpenChange: setConfirmDialog(null)
closeConfirmDialog ==
    /\ InspectorViewMounted
    /\ confirmDialog # "null"
    /\ confirmDialog' = "null"
    /\ notices' = <<>>
    /\ uncaught' = FALSE
    /\ UNCHANGED <<initialSpecs, inspectionVars, sessionVars, certLog>>
    /\ UNCHANGED notInspection

\* onChange of a reading input
handleActualChange(id, value) ==
    /\ InspectorViewMounted
    /\ ~InputDisabled
    /\ LET num == IF value = "" THEN None ELSE Some(ParseFloat(value))
       IN  \E onUpdateSpec \in {"handleUpdateSpec", "updateSpec"} :
              specs' = IF onUpdateSpec = "handleUpdateSpec"
                       THEN handleUpdateSpec(specs, id, num)
                       ELSE updateSpec(specs, id, num)
    /\ notices' = <<>>
    /\ uncaught' = FALSE
    /\ UNCHANGED <<initialSpecs, lotReleased, lotRejected, confirmDialog,
                   sessionVars, certLog>>
    /\ UNCHANGED notInspection

\* variant: the completeness check comes before the failure check
handleApprove_IncompleteFirst ==
    /\ InspectorViewMounted
    /\ confirmDialog = "approve"
    /\ IF ~allInspected(specs)
       THEN /\ notices' = <<MsgIncomplete>>
            /\ confirmDialog' = "null"
            /\ UNCHANGED <<lotReleased, certLog>>
       ELSE IF hasFailures(specs)
       THEN /\ notices' = <<MsgFailures>>
            /\ confirmDialog' = "null"
            /\ UNCHANGED <<lotReleased, certLog>>
       ELSE /\ Len(certLog) < MaxCertCalls
            /\ \E outcome \in {"saved", "threw"} :
                  /\ certLog' = Append(certLog, outcome)
                  /\ notices' = IF outcome = "saved"
                                THEN <<MsgApproved>> ELSE <<MsgCertError>>
            /\ lotReleased' = TRUE
            /\ confirmDialog' = "null"
    /\ uncaught' = FALSE
    /\ UNCHANGED <<initialSpecs, specs, lotRejected, sessionVars>>
    /\ UNCHANGED notInspection

\* variant: the certificate is generated before the guards are checked
handleApprove_CertFirst ==
    /\ InspectorViewMounted
    /\ confirmDialog = "approve"
    /\ Len(certLog) < MaxCertCalls
    /\ \E outcome \in {"saved", "threw"} :
          /\ certLog' = Append(certLog, outcome)
          /\ IF hasFailures(specs)
             THEN /\ notices' = <<MsgFailures>>
                  /\ UNCHANGED lotReleased
             ELSE IF ~allInspected(specs)
             THEN /\ notices' = <<MsgIncomplete>>
                  /\ UNCHANGED lotReleased
             ELSE /\ notices' = IF outcome = "saved"
                                THEN <<MsgApproved>> ELSE <<MsgCertError>>
                  /\ lotReleased' = TRUE
    /\ confirmDialog' = "null"
    /\ uncaught' = FALSE
    /\ UNCHANGED <<initialSpecs, specs, lotRejected, sessionVars>>
    /\ UNCHANGED notInspection

\* variant: no try/catch around the certificate generator
handleApprove_NoCatch ==
    /\ InspectorViewMounted
    /\ confirmDialog = "approve"
    /\ IF hasFailures(specs)
       THEN /\ notices' = <<MsgFailures>>
            /\ confirmDialog' = "null"
            /\ uncaught' = FALSE
            /\ UNCHANGED <<lotReleased, certLog>>
       ELSE IF ~allInspected(specs)
       THEN /\ notices' = <<MsgIncomplete>>
            /\ confirmDialog' = "null"
            /\ uncaught' = FALSE
            /\ UNCHANGED <<lotReleased, certLog>>
       ELSE /\ Len(certLog) < MaxCertCalls
            /\ \E outcome \in {"saved", "threw"} :
                  /\ certLog' = Append(certLog, outcome)
                  /\ IF outcome = "saved"
                     THEN /\ notices' = <<MsgApproved>>
                          /\ lotReleased' = TRUE
                          /\ confirmDialog' = "null"
                          /\ uncaught' = FALSE
                     ELSE /\ notices' = <<>>
                          /\ uncaught' = TRUE
                          /\ UNCHANGED <<lotReleased, confirmDialog>>
    /\ UNCHANGED <<initialSpecs, specs, lotRejected, sessionVars>>
    /\ UNCHANGED notInspection

\* Confirm Approval
handleApprove ==
    /\ InspectorViewMounted
    /\ confirmDialog = "approve"
    /\ IF hasFailures(specs)
       THEN /\ notices' = <<MsgFailures>>
            /\ confirmDialog' = "null"
            /\ UNCHANGED <<lotReleased, certLog>>
       ELSE IF ~allInspected(specs)
       THEN /\ notices' = <<MsgIncomplete>>
            /\ confirmDialog' = "null"
            /\ UNCHANGED <<lotReleased, certLog>>
       ELSE /\ Len(certLog) < MaxCertCalls
            /\ \E outcome \in {"saved", "threw"} :
                  /\ certLog' = Append(certLog, outcome)
                  /\ notices' = IF outcome = "saved"
                                THEN <<MsgApproved>> ELSE <<MsgCertError>>
            /\ lotReleased' = TRUE
            /\ confirmDialog' = "null"
    /\ uncaught' = FALSE
    /\ UNCHANGED <<initialSpecs, specs, lotRejected, sessionVars>>
    /\ UNCHANGED notInspection

\* variant: reject carries the guards of approve
handleReject_Guarded ==
    /\ InspectorViewMounted
    /\ confirmDialog \notin {"null", "approve"}
    /\ IF ~allInspected(specs)
       THEN /\ notices' = <<MsgIncomplete>>
            /\ UNCHANGED lotRejected
       ELSE /\ lotRejected' = TRUE
            /\ notices' = <<MsgRejected>>
    /\ confirmDialog' = "null"
    /\ uncaught' = FALSE
    /\ UNCHANGED <<initialSpecs, specs, lotReleased, sessionVars, certLog>>
    /\ UNCHANGED notInspection

\* Confirm Rejection
handleReject ==
    /\ InspectorViewMounted
    /\ confirmDialog \notin {"null", "approve"}
    /\ lotRejected' = TRUE
    /\ confirmDialog' = "null"
    /\ notices' = <<MsgRejected>>
    /\ uncaught' = FALSE
    /\ UNCHANGED <<initialSpecs, specs, lotReleased, sessionVars, certLog>>
    /\ UNCHANGED notInspection

\* ------------------------------------------------------------------------
\* useInspection.resetSpecs
\* ------------------------------------------------------------------------
\* variant: statuses go back to pending but the readings stay
resetSpecs_KeepsActual ==
    /\ specs' = [i \in 1..Len(specs) |-> [specs[i] EXCEPT !.status = "pending"]]
    /\ lotReleased' = FALSE
    /\ lotRejected' = FALSE
    /\ notices' = <<>>
    /\ uncaught' = FALSE
    /\ UNCHANGED <<initialSpecs, confirmDialog, sessionVars, certLog>>
    /\ UNCHANGED notInspection

resetSpecs ==
    /\ specs' = [i \in 1..Len(initialSpecs) |->
                    [initialSpecs[i] EXCEPT !.actual = None, !.status = "pending"]]
    /\ lotReleased' = FALSE
    /\ lotRejected' = FALSE
    /\ notices' = <<>>
    /\ uncaught' = FALSE
    /\ UNCHANGED <<initialSpecs, confirmDialog, sessionVars, certLog>>
    /\ UNCHANGED notInspection

\* ------------------------------------------------------------------------
\* Session
\* ------------------------------------------------------------------------
IsSpace(c) == c = " "
ToUpperCase(c) ==
    CASE c = "s" -> "S" [] c = "t" -> "T" [] c = "d" -> "D" [] OTHER -> c
IsAlnum(c) == ToUpperCase(c) \in {"S", "T", "D", "0", "1", "2", "6"}

RECURSIVE TrimStart(_)
TrimStart(s) == IF s # <<>> /\ IsSpace(Head(s)) THEN TrimStart(Tail(s)) ELSE s
RECURSIVE TrimEnd(_)
TrimEnd(s) ==
    IF s # <<>> /\ IsSpace(s[Len(s)]) THEN TrimEnd(SubSeq(s, 1, Len(s) - 1)) ELSE s
Trim(s) == TrimEnd(TrimStart(s))
UpperCase(s) == [i \in 1..Len(s) |-> ToUpperCase(s[i])]

isValidLotFormat(lotNumber) ==
    IF Len(lotNumber) < 6 THEN FALSE
    ELSE LET prefix == UpperCase(SubSeq(lotNumber, 1, 3))
         IN  \/ prefix \in VALID_LOT_PREFIXES
             \/ \A i \in 1..Len(lotNumber) : IsAlnum(lotNumber[i])

\* variant: the submission is not gated on isLoading
handleScan_NoLoadingGate(value) ==
    /\ isKioskMode
    /\ Trim(value) # <<>>
    /\ LET trimmed == UpperCase(Trim(Trim(value)))
       IN  IF ~isValidLotFormat(trimmed)
           THEN /\ notices' = <<MsgScanFail>>
                /\ UNCHANGED <<isLoading, scanRequests>>
           ELSE /\ Len(scanRequests) < MaxInFlight
                /\ isLoading' = TRUE
                /\ scanRequests' = Append(scanRequests, trimmed)
                /\ notices' = <<>>
    /\ uncaught' = FALSE
    /\ UNCHANGED <<initialSpecs, inspectionVars, confirmDialog, scannedLot,
                   currentUser, currentRole, certLog>>
    /\ UNCHANGED notInspection

\* variant: scanLot raises the loading flag before it validates the format
handleScan_LoadingFirst(value) ==
    /\ isKioskMode
    /\ ~(Trim(value) = <<>> \/ isLoading)
    /\ LET trimmed == UpperCase(Trim(Trim(value)))
       IN  IF ~isValidLotFormat(trimmed)
           THEN /\ notices' = <<MsgScanFail>>
                /\ isLoading' = TRUE
                /\ UNCHANGED scanRequests
           ELSE /\ Len(scanRequests) < MaxInFlight
                /\ isLoading' = TRUE
                /\ scanRequests' = Append(scanRequests, trimmed)
                /\ notices' = <<>>
    /\ uncaught' = FALSE
    /\ UNCHANGED <<initialSpecs, inspectionVars, confirmDialog, scannedLot,
                   currentUser, currentRole, certLog>>
    /\ UNCHANGED notInspection

\* SmartSearchBar.handleScan up to the first suspension of scanLot
handleScan(value) ==
    /\ isKioskMode
    /\ ~(Trim(value) = <<>> \/ isLoading)
    /\ LET trimmed == UpperCase(Trim(Trim(value)))
       IN  IF ~isValidLotFormat(trimmed)
           THEN /\ notices' = <<MsgScanFail>>
                /\ UNCHANGED <<isLoading, scanRequests>>
           ELSE /\ Len(scanRequests) < MaxInFlight
                /\ isLoading' = TRUE
                /\ scanRequests' = Append(scanRequests, trimmed)
                /\ notices' = <<>>
    /\ uncaught' = FALSE
    /\ UNCHANGED <<initialSpecs, inspectionVars, confirmDialog, scannedLot,
                   currentUser, currentRole, certLog>>
    /\ UNCHANGED notInspection

\* scanLot after the simulated fetch delay, then the rest of handleScan
scanLotResolve ==
    /\ scanRequests # <<>>
    /\ scannedLot' = Some(Head(scanRequests))
    /\ scanRequests' = Tail(scanRequests)
    /\ isLoading' = FALSE
    /\ confirmDialog' = DialogAfter(scannedLot', currentRole)
    /\ notices' = <<MsgScanOk>>
    /\ uncaught' = FALSE
    /\ UNCHANGED <<initialSpecs, inspectionVars, currentUser, currentRole, certLog>>
    /\ UNCHANGED notInspection

\* RoleSwitcher.handleAuthSuccess -> DashboardContent.handleAuthenticate
handleAuthenticate(pin, targetRole) ==
    /\ targetRole \in {"inspector", "manager"}
    /\ currentRole # targetRole
    /\ LET matches == {c \in MOCK_CREDENTIALS : c.pin = pin /\ c.role = targetRole}
       IN  IF matches = {}
           THEN /\ notices' = <<MsgAuthFail>>
                /\ UNCHANGED <<currentUser, currentRole, confirmDialog>>
           ELSE LET credential == CHOOSE c \in matches : TRUE
                IN  /\ currentUser' = Some([name |-> credential.name,
                                            role |-> credential.role])
                    /\ currentRole' = credential.role
                    /\ confirmDialog' = DialogAfter(scannedLot, credential.role)
                    /\ notices' = <<MsgAuthOk>>
    /\ uncaught' = FALSE
    /\ UNCHANGED <<initialSpecs, inspectionVars, scannedLot, isLoading,
                   scanRequests, certLog>>
    /\ UNCHANGED notInspection

\* variant: the role drops to operator but the user stays signed in
switchToOperator_KeepsUser ==
    /\ currentRole' = "operator"
    /\ confirmDialog' = DialogAfter(scannedLot, "operator")
    /\ notices' = <<>>
    /\ uncaught' = FALSE
    /\ UNCHANGED <<initialSpecs, inspectionVars, scannedLot, currentUser,
                   isLoading, scanRequests, certLog>>
    /\ UNCHANGED notInspection

\* RoleSwitcher operator button -> handleRoleChange -> switchToOperator
switchToOperator ==
    /\ currentRole' = "operator"
    /\ currentUser' = None
    /\ confirmDialog' = DialogAfter(scannedLot, "operator")
    /\ notices' = <<>>
    /\ uncaught' = FALSE
    /\ UNCHANGED <<initialSpecs, inspectionVars, scannedLot, isLoading,
                   scanRequests, certLog>>
    /\ UNCHANGED notInspection

\* variant: the session ends but the readings and the verdict stay
handleEndShift_KeepsInspection ==
    /\ ~isKioskMode
    /\ scannedLot' = None
    /\ currentUser' = None
    /\ currentRole' = "operator"
    /\ isLoading' = FALSE
    /\ confirmDialog' = DialogAfter(None, "operator")
    /\ notices' = <<MsgEndShift>>
    /\ uncaught' = FALSE
    /\ UNCHANGED <<initialSpecs, inspectionVars, scanRequests, certLog>>
    /\ UNCHANGED notInspection

\* Finalizar Turno
handleEndShift ==
    /\ ~isKioskMode
    /\ scannedLot' = None
    /\ currentUser' = None
    /\ currentRole' = "operator"
    /\ isLoading' = FALSE
    /\ specs' = initialSpecs
    /\ lotReleased' = FALSE
    /\ lotRejected' = FALSE
    /\ confirmDialog' = DialogAfter(None, "operator")
    /\ notices' = <<MsgEndShift>>
    /\ uncaught' = FALSE
    /\ UNCHANGED <<initialSpecs, scanRequests, certLog>>
    /\ UNCHANGED notInspection

\* ------------------------------------------------------------------------
\* Specification
\* ------------------------------------------------------------------------
Next ==
    \/ \E kind \in {"approve", "reject"} : openConfirmDialog(kind)
    \/ closeConfirmDialog
    \/ \E i \in 1..Len(specs), value \in InputTexts :
          handleActualChange(specs[i].id, value)
    \/ handleApprove
    \/ handleReject
    \/ resetSpecs
    \/ \E value \in LotInputs : handleScan(value)
    \/ scanLotResolve
    \/ \E pin \in Pins, targetRole \in Roles : handleAuthenticate(pin, targetRole)
    \/ switchToOperator
    \/ handleEndShift

Spec == Init /\ [][Next]_vars

\* the dashboard page alone: DashboardContent holds the inspection state
\* itself and never calls useInspection
NextDashboard ==
    \/ \E kind \in {"approve", "reject"} : openConfirmDialog(kind)
    \/ closeConfirmDialog
    \/ \E i \in 1..Len(specs), value \in InputTexts :
          handleActualChange(specs[i].id, value)
    \/ handleApprove
    \/ handleReject
    \/ \E value \in LotInputs : handleScan(value)
    \/ scanLotResolve
    \/ \E pin \in Pins, targetRole \in Roles : handleAuthenticate(pin, targetRole)
    \/ switchToOperator
    \/ handleEndShift

SpecDashboard == Init /\ [][NextDashboard]_vars

\* ------------------------------------------------------------------------
\* useInspection called directly: what the hook returns to its caller
\* ------------------------------------------------------------------------
\* ids a caller may pass: those of the template and two that match nothing
SpecIds == 0..(MaxSpecs + 1)

\* readings a caller may pass: null or a number
Actuals == {None} \cup { Some(v) : v \in 0..MaxVal }

\* updateSpec(id, actual)
updateSpecCall(id, actual) ==
    /\ specs' = updateSpec(specs, id, actual)
    /\ notices' = <<>>
    /\ uncaught' = FALSE
    /\ UNCHANGED <<initialSpecs, lotReleased, lotRejected, confirmDialog,
                   sessionVars, certLog>>
    /\ UNCHANGED notInspection

\* setLotReleased(value), the raw setter in the hook's return value
setLotReleased(value) ==
    /\ lotReleased' = value
    /\ notices' = <<>>
    /\ uncaught' = FALSE
    /\ UNCHANGED <<initialSpecs, specs, lotRejected, confirmDialog,
                   sessionVars, certLog>>
    /\ UNCHANGED notInspection

\* setLotRejected(value)
setLotRejected(value) ==
    /\ lotRejected' = value
    /\ notices' = <<>>
    /\ uncaught' = FALSE
    /\ UNCHANGED <<initialSpecs, specs, lotReleased, confirmDialog,
                   sessionVars, certLog>>
    /\ UNCHANGED notInspection

NextHook ==
    \/ \E id \in SpecIds, actual \in Actuals : updateSpecCall(id, actual)
    \/ resetSpecs
    \/ \E value \in BOOLEAN : setLotReleased(value)
    \/ \E value \in BOOLEAN : setLotRejected(value)

SpecHook == Init /\ [][NextHook]_vars

\* ------------------------------------------------------------------------
\* DynamicInspectionForm driven by useDynamicInspection
\* ------------------------------------------------------------------------
\* value of an Inspection Value: number | boolean | string | null
Null == [kind |-> "null"]
Num(n) == [kind |-> "number", n |-> n]
Bool(b) == [kind |-> "boolean", b |-> b]
Str(t) == [kind |-> "string", t |-> t]

FieldIds == <<"f1", "f2">>
Options == {"A", "B"}

\* what a Field Definition can look like, its id aside
FieldShapes ==
    { [type |-> "numeric", required |-> TRUE, min |-> Some(1), max |-> Some(2)],
      [type |-> "numeric", required |-> TRUE, min |-> None, max |-> Some(2)],
      [type |-> "boolean", required |-> TRUE, min |-> None, max |-> None],
      [type |-> "select", required |-> TRUE, min |-> None, max |-> None],
      [type |-> "select", required |-> FALSE, min |-> None, max |-> None] }

\* the fields prop: definitions with distinct ids, none to one per id
FieldLists ==
    UNION { { [i \in 1..n |-> [id |-> FieldIds[i], type |-> f[i].type,
                               required |-> f[i].required,
                               min |-> f[i].min, max |-> f[i].max]]
              : f \in [1..n -> FieldShapes] }
            : n \in 0..Len(FieldIds) }

\* variant: an undefined bound fails the reading
validateNumericField_BothBounds(value, min, max) ==
    IF value = Null THEN "pending"
    ELSE IF min = None \/ max = None THEN "fail"
    ELSE IF value.n < min[1] \/ value.n > max[1] THEN "fail"
    ELSE "pass"
validateNumericField(value, min, max) ==
    IF value = Null THEN "pending"
    ELSE IF min # None /\ value.n < min[1] THEN "fail"
    ELSE IF max # None /\ value.n > max[1] THEN "fail"
    ELSE "pass"

\* variant: an unchecked switch counts as not inspected
validateBooleanField_FalsePending(value) ==
    IF value = Null THEN "pending"
    ELSE IF value.b THEN "pass" ELSE "pending"
validateBooleanField(value) ==
    IF value = Null THEN "pending"
    ELSE IF value.b THEN "pass" ELSE "fail"

\* JavaScript truthiness of a string | null
Truthy(value) == value # Null /\ value # Str("")

\* variant: a required field without a choice fails
validateSelectField_RequiredFails(value, required) ==
    IF required /\ (~Truthy(value) \/ value = Str("")) THEN "fail"
    ELSE IF Truthy(value) THEN "pass" ELSE "pending"
validateSelectField(value, required) ==
    IF required /\ (~Truthy(value) \/ value = Str("")) THEN "pending"
    ELSE IF Truthy(value) THEN "pass" ELSE "pending"

\* values.filter(v => v.fieldId !== fieldId)
RECURSIVE WithoutField(_, _)
WithoutField(vals, fieldId) ==
    IF vals = <<>> THEN <<>>
    ELSE IF Head(vals).fieldId = fieldId THEN WithoutField(Tail(vals), fieldId)
    ELSE <<Head(vals)>> \o WithoutField(Tail(vals), fieldId)

\* variant: the new entry is appended and the old one stays
updateValueResult_NoFilter(captured, fieldId, newValue, field) ==
    LET status ==
            CASE field.type = "numeric" ->
                    validateNumericField(newValue, field.min, field.max)
              [] field.type = "boolean" -> validateBooleanField(newValue)
              [] field.type = "select" ->
                    validateSelectField(newValue, field.required)
              [] OTHER -> "pending"
    IN  Append(captured,
               [fieldId |-> fieldId, value |-> newValue, status |-> status])

\* variant: an existing entry is replaced where it stands
updateValueResult_InPlace(captured, fieldId, newValue, field) ==
    LET status ==
            CASE field.type = "numeric" ->
                    validateNumericField(newValue, field.min, field.max)
              [] field.type = "boolean" -> validateBooleanField(newValue)
              [] field.type = "select" ->
                    validateSelectField(newValue, field.required)
              [] OTHER -> "pending"
        entry == [fieldId |-> fieldId, value |-> newValue, status |-> status]
    IN  IF \E k \in 1..Len(captured) : captured[k].fieldId = fieldId
        THEN [k \in 1..Len(captured) |->
                 IF captured[k].fieldId = fieldId THEN entry ELSE captured[k]]
        ELSE Append(captured, entry)

\* the list updateValue hands to onValuesChange, computed from the values
\* prop its closure holds
updateValueResult(captured, fieldId, newValue, field) ==
    LET status ==
            CASE field.type = "numeric" ->
                    validateNumericField(newValue, field.min, field.max)
              [] field.type = "boolean" -> validateBooleanField(newValue)
              [] field.type = "select" ->
                    validateSelectField(newValue, field.required)
              [] OTHER -> "pending"
    IN  Append(WithoutField(captured, fieldId),
               [fieldId |-> fieldId, value |-> newValue, status |-> status])

\* what renderInput passes for a field of each type
InputsFor(field) ==
    CASE field.type = "numeric" -> {Null} \cup { Num(n) : n \in 0..MaxVal }
      [] field.type = "boolean" -> { Bool(TRUE), Bool(FALSE) }
      [] field.type = "select" -> { Str(o) : o \in Options }
      [] OTHER -> {}

DynInit ==
    /\ DashboardIdle
    /\ PartsIdle
    /\ ShipIdle
    /\ fields \in FieldLists
    /\ values = <<>>
    /\ closureValues = <<>>

\* an input's change handler: updateValue, onValuesChange, setValues
updateValue(fieldId, newValue, field) ==
    /\ values' = updateValueResult(closureValues, fieldId, newValue, field)
    /\ UNCHANGED <<fields, closureValues>>
    /\ UNCHANGED notDyn

\* the form renders again: its callbacks now hold the committed values
renderForm ==
    /\ closureValues # values
    /\ closureValues' = values
    /\ UNCHANGED <<fields, values>>
    /\ UNCHANGED notDyn

\* useDynamicInspection.reset
resetValues ==
    /\ values' = <<>>
    /\ UNCHANGED <<fields, closureValues>>
    /\ UNCHANGED notDyn

NextDyn ==
    \/ \E i \in 1..Len(fields) : \E newValue \in InputsFor(fields[i]) :
          updateValue(fields[i].id, newValue, fields[i])
    \/ renderForm
    \/ resetValues

SpecDyn == DynInit /\ [][NextDyn]_vars

\* getValue: the stored entry of a field, or the pending default
getValue(vals, fieldId) ==
    IF \E k \in 1..Len(vals) : vals[k].fieldId = fieldId
    THEN vals[CHOOSE k \in 1..Len(vals) :
                 /\ vals[k].fieldId = fieldId
                 /\ \A j \in 1..(k - 1) : vals[j].fieldId # fieldId]
    ELSE [fieldId |-> fieldId, value |-> Null, status |-> "pending"]

\* every value the signature of updateValue admits for a field of each type
\* (number | boolean | string | null)
ApiInputsFor(field) ==
    CASE field.type = "numeric" -> {Null} \cup { Num(n) : n \in 0..MaxVal }
      [] field.type = "boolean" -> { Null, Bool(TRUE), Bool(FALSE) }
      [] field.type = "select" -> { Null, Str("") } \cup { Str(o) : o \in Options }
      [] OTHER -> {}

\* updateValue with every value of its parameter type
NextDynApi ==
    \/ \E i \in 1..Len(fields) : \E newValue \in ApiInputsFor(fields[i]) :
          updateValue(fields[i].id, newValue, fields[i])
    \/ renderForm
    \/ resetValues

SpecDynApi == DynInit /\ [][NextDynApi]_vars

\* values.filter(v => v.status === status).length
RECURSIVE CountStatus(_, _)
CountStatus(vals, status) ==
    IF vals = <<>> THEN 0
    ELSE (IF Head(vals).status = status THEN 1 ELSE 0)
         + CountStatus(Tail(vals), status)

\* useDynamicInspection: stats
statsTotal(fs) == Len(fs)
statsCompleted(vals) == Len(vals) - CountStatus(vals, "pending")
statsPassed(vals) == CountStatus(vals, "pass")
statsFailed(vals) == CountStatus(vals, "fail")
statsAllInspected(fs, vals) == statsCompleted(vals) = statsTotal(fs)
\* variant: vacuous truth on the empty field list
statsAllPass_Vacuous(fs, vals) ==
    statsAllInspected(fs, vals) /\ statsFailed(vals) = 0
statsAllPass(fs, vals) ==
    statsAllInspected(fs, vals) /\ statsFailed(vals) = 0 /\ statsTotal(fs) > 0
statsHasFailures(vals) == statsFailed(vals) > 0

\* the caller hands useDynamicInspection and the form another field list;
\* the hook keeps its values and the form renders with them
changeFields(newFields) ==
    /\ newFields # fields
    /\ fields' = newFields
    /\ closureValues' = values
    /\ UNCHANGED values
    /\ UNCHANGED notDyn

NextDynFields ==
    \/ \E i \in 1..Len(fields) : \E newValue \in InputsFor(fields[i]) :
          updateValue(fields[i].id, newValue, fields[i])
    \/ renderForm
    \/ resetValues
    \/ \E newFields \in FieldLists : changeFields(newFields)

SpecDynFields == DynInit /\ [][NextDynFields]_vars

\* ------------------------------------------------------------------------
\* PartConfigProvider: parts, revisions and their copies in localStorage
\* ------------------------------------------------------------------------
\* JSON.stringify / JSON.parse; a text that is no JSON makes parse throw
Stringify(data) == [json |-> data]
CorruptText == [garbage |-> "{"]
ParseThrows(text) == text = CorruptText
Parse(text) == text.json

RevisionLabels == <<"Rev A", "Rev B", "Rev C", "Rev D", "Rev E", "Rev F">>

getNextRevision(currentRevision) ==
    IF \E k \in 1..(Len(RevisionLabels) - 1) : RevisionLabels[k] = currentRevision
    THEN RevisionLabels[(CHOOSE k \in 1..(Len(RevisionLabels) - 1) :
                            RevisionLabels[k] = currentRevision) + 1]
    ELSE "Rev A"

\* field lists an engineer hands over: ids f1, f2 in either order
PartFieldLists ==
    { <<>>, <<"f1">>, <<"f2">>, <<"f1", "f2">>, <<"f2", "f1">> }

\* demo data
INITIAL_PART_CONFIGS ==
    << [id |-> 0, fields |-> <<"f1">>, currentRevision |-> "Rev A"] >>
INITIAL_REVISIONS ==
    << [id |-> 0, partConfigId |-> 0, revision |-> "Rev A", fields |-> <<"f1">>] >>

\* what localStorage may hold when the provider mounts
StoredAtMount ==
    { <<None, None>>,
      <<Some(Stringify(INITIAL_PART_CONFIGS)), Some(Stringify(INITIAL_REVISIONS))>>,
      <<Some(Stringify(INITIAL_PART_CONFIGS)), None>>,
      <<Some(CorruptText), Some(Stringify(INITIAL_REVISIONS))>> }

PartsInit ==
    /\ DashboardIdle
    /\ DynIdle
    /\ ShipIdle
    /\ parts = <<>>
    /\ revisions = <<>>
    /\ pcLoading = TRUE
    /\ \E st \in StoredAtMount : storedParts = st[1] /\ storedRevisions = st[2]
    /\ nextId = 0
    /\ effectThrew = FALSE

\* prev.map(part => part.id !== id ? part : {...part, ...updates})
WithFields(prev, id, fs) ==
    [k \in 1..Len(prev) |->
        IF prev[k].id # id THEN prev[k] ELSE [prev[k] EXCEPT !.fields = fs]]

WithCurrentRevision(prev, id, revision) ==
    [k \in 1..Len(prev) |->
        IF prev[k].id # id THEN prev[k]
        ELSE [prev[k] EXCEPT !.currentRevision = revision]]

RECURSIVE FilterParts(_, _)
FilterParts(prev, id) ==
    IF prev = <<>> THEN <<>>
    ELSE IF Head(prev).id = id THEN FilterParts(Tail(prev), id)
    ELSE <<Head(prev)>> \o FilterParts(Tail(prev), id)

RECURSIVE FilterRevisions(_, _)
FilterRevisions(prev, id) ==
    IF prev = <<>> THEN <<>>
    ELSE IF Head(prev).partConfigId = id THEN FilterRevisions(Tail(prev), id)
    ELSE <<Head(prev)>> \o FilterRevisions(Tail(prev), id)

RECURSIVE WithoutFieldId(_, _)
WithoutFieldId(fs, fieldId) ==
    IF fs = <<>> THEN <<>>
    ELSE IF Head(fs) = fieldId THEN WithoutFieldId(Tail(fs), fieldId)
    ELSE <<Head(fs)>> \o WithoutFieldId(Tail(fs), fieldId)

\* prev.map(part => ... fields: [...part.fields, field])
WithFieldAdded(prev, partId, field) ==
    [k \in 1..Len(prev) |->
        IF prev[k].id # partId THEN prev[k]
        ELSE [prev[k] EXCEPT !.fields = Append(@, field)]]

\* prev.map(part => ... fields: part.fields.filter(f => f.id !== fieldId))
WithFieldRemoved(prev, partId, fieldId) ==
    [k \in 1..Len(prev) |->
        IF prev[k].id # partId THEN prev[k]
        ELSE [prev[k] EXCEPT !.fields = WithoutFieldId(@, fieldId)]]

\* the two persist effects that run after a commit: each writes its list
\* when the list was set anew and is not empty; setItem succeeds or throws
PersistEffects(newParts, partsSet, newRevisions, revisionsSet, writeOk) ==
    LET writesParts == partsSet /\ Len(newParts) > 0
        writesRevisions == revisionsSet /\ Len(newRevisions) > 0
    IN  /\ storedParts' = IF writesParts /\ writeOk
                          THEN Some(Stringify(newParts)) ELSE storedParts
        /\ storedRevisions' = IF writesRevisions /\ writeOk
                              THEN Some(Stringify(newRevisions))
                              ELSE storedRevisions
        /\ effectThrew' = (~writeOk /\ (writesParts \/ writesRevisions))

\* a state setter call followed by the commit and the persist effects
Commit(newParts, partsSet, newRevisions, revisionsSet) ==
    /\ parts' = newParts
    /\ revisions' = newRevisions
    /\ \E writeOk \in BOOLEAN :
          PersistEffects(newParts, partsSet, newRevisions, revisionsSet, writeOk)

Mounted == ~pcLoading /\ ~effectThrew

PartIds == 0..MaxIds

\* the mount effect, the commit of its setters and the persist effects that
\* run once isLoading is false
loadFromStorage ==
    /\ pcLoading
    /\ \E writeOk \in BOOLEAN :
          LET caught ==
                  \/ storedParts # None /\ ParseThrows(storedParts[1])
                  \/ storedParts = None /\ ~writeOk
                  \/ storedRevisions # None /\ ParseThrows(storedRevisions[1])
                  \/ storedRevisions = None /\ ~writeOk
              newParts ==
                  IF caught \/ storedParts = None THEN INITIAL_PART_CONFIGS
                  ELSE Parse(storedParts[1])
              newRevisions ==
                  IF caught \/ storedRevisions = None THEN INITIAL_REVISIONS
                  ELSE Parse(storedRevisions[1])
              \* the writes inside the try block
              partsAfterTry ==
                  IF storedParts = None /\ writeOk
                  THEN Some(Stringify(INITIAL_PART_CONFIGS)) ELSE storedParts
              revisionsAfterTry ==
                  IF /\ ~(storedParts # None /\ ParseThrows(storedParts[1]))
                     /\ storedRevisions = None /\ writeOk
                  THEN Some(Stringify(INITIAL_REVISIONS)) ELSE storedRevisions
          IN  /\ parts' = newParts
              /\ revisions' = newRevisions
              /\ pcLoading' = FALSE
              /\ storedParts' = IF Len(newParts) > 0 /\ writeOk
                                THEN Some(Stringify(newParts)) ELSE partsAfterTry
              /\ storedRevisions' = IF Len(newRevisions) > 0 /\ writeOk
                                    THEN Some(Stringify(newRevisions))
                                    ELSE revisionsAfterTry
              /\ effectThrew' = (~writeOk /\ (Len(newParts) > 0 \/ Len(newRevisions) > 0))
    /\ UNCHANGED nextId
    /\ UNCHANGED notParts

createPart(fs) ==
    /\ Mounted
    /\ nextId + 2 <= MaxIds
    /\ LET newPart == [id |-> nextId + 1, fields |-> fs, currentRevision |-> "Rev A"]
           initialRevision == [id |-> nextId + 2, partConfigId |-> newPart.id,
                               revision |-> "Rev A", fields |-> fs]
       IN  Commit(Append(parts, newPart), TRUE,
                  Append(revisions, initialRevision), TRUE)
    /\ nextId' = nextId + 2
    /\ UNCHANGED pcLoading
    /\ UNCHANGED notParts

\* updatePart(id, {fields})
updatePart(id, fs) ==
    /\ Mounted
    /\ Commit(WithFields(parts, id, fs), TRUE, revisions, FALSE)
    /\ UNCHANGED <<pcLoading, nextId>>
    /\ UNCHANGED notParts

deletePart(id) ==
    /\ Mounted
    /\ Commit(FilterParts(parts, id), TRUE, FilterRevisions(revisions, id), TRUE)
    /\ UNCHANGED <<pcLoading, nextId>>
    /\ UNCHANGED notParts

createRevision(partId) ==
    /\ Mounted
    /\ nextId + 1 <= MaxIds
    /\ \E k \in 1..Len(parts) : parts[k].id = partId
    /\ LET part == parts[CHOOSE k \in 1..Len(parts) : parts[k].id = partId]
           nextRevision == getNextRevision(part.currentRevision)
           newRevision == [id |-> nextId + 1, partConfigId |-> partId,
                           revision |-> nextRevision, fields |-> part.fields]
       IN  Commit(WithCurrentRevision(parts, partId, nextRevision), TRUE,
                  Append(revisions, newRevision), TRUE)
    /\ nextId' = nextId + 1
    /\ UNCHANGED pcLoading
    /\ UNCHANGED notParts

addField(partId, field) ==
    /\ Mounted
    /\ \A k \in 1..Len(parts) :
          parts[k].id = partId =>
             \A j \in 1..Len(parts[k].fields) : parts[k].fields[j] # field
    /\ Commit(WithFieldAdded(parts, partId, field), TRUE, revisions, FALSE)
    /\ UNCHANGED <<pcLoading, nextId>>
    /\ UNCHANGED notParts

removeField(partId, fieldId) ==
    /\ Mounted
    /\ Commit(WithFieldRemoved(parts, partId, fieldId), TRUE, revisions, FALSE)
    /\ UNCHANGED <<pcLoading, nextId>>
    /\ UNCHANGED notParts

NextParts ==
    \/ loadFromStorage
    \/ \E partId \in PartIds, field \in {"f1", "f2"} : addField(partId, field)
    \/ \E partId \in PartIds, fieldId \in {"f1", "f2"} : removeField(partId, fieldId)
    \/ \E fs \in PartFieldLists : createPart(fs)
    \/ \E id \in PartIds, fs \in PartFieldLists : updatePart(id, fs)
    \/ \E id \in PartIds : deletePart(id)
    \/ \E partId \in PartIds : createRevision(partId)

SpecParts == PartsInit /\ [][NextParts]_vars

\* ------------------------------------------------------------------------
\* EngineerView: the handlers that call the provider
\* ------------------------------------------------------------------------
HasPart(id) == \E k \in 1..Len(parts) : parts[k].id = id
PartById(ps, id) == ps[CHOOSE k \in 1..Len(ps) : ps[k].id = id]

\* Create Part dialog: a part needs at least one field
handleCreatePart(fs) ==
    /\ Len(fs) > 0
    /\ createPart(fs)

\* Save Changes on the selected part
handleSavePart(id, fs) ==
    /\ HasPart(id)
    /\ updatePart(id, fs)

\* Create Revision on the selected part: updatePart with the form's fields,
\* then createRevision, which reads the part from the parts of the render
\* its closure belongs to, then updatePart with the new revision label
handleCreateRevision(id, fs) ==
    /\ Mounted
    /\ HasPart(id)
    /\ nextId + 1 <= MaxIds
    /\ LET part == PartById(parts, id)
           nextRevision == getNextRevision(part.currentRevision)
           newRevision == [id |-> nextId + 1, partConfigId |-> id,
                           revision |-> nextRevision, fields |-> part.fields]
       IN  Commit(WithCurrentRevision(WithFields(parts, id, fs), id, nextRevision),
                  TRUE, Append(revisions, newRevision), TRUE)
    /\ nextId' = nextId + 1
    /\ UNCHANGED pcLoading
    /\ UNCHANGED notParts

\* Delete in the confirmation dialog of a listed part
handleDeletePart(id) ==
    /\ HasPart(id)
    /\ deletePart(id)

NextEngineer ==
    \/ loadFromStorage
    \/ \E fs \in PartFieldLists : handleCreatePart(fs)
    \/ \E id \in PartIds, fs \in PartFieldLists : handleSavePart(id, fs)
    \/ \E id \in PartIds, fs \in PartFieldLists : handleCreateRevision(id, fs)
    \/ \E id \in PartIds : handleDeletePart(id)

SpecEngineer == PartsInit /\ [][NextEngineer]_vars

\* ------------------------------------------------------------------------
\* PartialShipmentTracker driven by usePartialShipments
\* ------------------------------------------------------------------------
\* what the quantity input (type number) can hold, and parseInt(text, 10)
QtyTable ==
    { <<"0", 0>>, <<"1", 1>>, <<"2", 2>>, <<"3", 3>>, <<"4", 4>>, <<"5", 5>>,
      <<"-1", -1>>, <<"2.5", 2>>, <<"0.5", 0>>, <<"1e2", 1>> }
QtyTexts == {""} \cup { p[1] : p \in { q \in QtyTable : q[2] <= MaxQty + 1 } }
ParseInt(text) == (CHOOSE p \in QtyTable : p[1] = text)[2]

ErrRequired == "Quantity is required"
ErrNotPositive == "Quantity must be greater than 0"
ErrExceeds == "Cannot exceed remaining quantity"

RECURSIVE SumQty(_)
SumQty(list) == IF list = <<>> THEN 0 ELSE Head(list) + SumQty(Tail(list))

\* calculations of a render: remainingQty and isComplete
remainingQty(total, list) == total - SumQty(list)
isComplete(total, list) == remainingQty(total, list) <= 0

\* validateQty against the remaining quantity of the render
validateQty(value, remaining) ==
    IF value = "" THEN Some(ErrRequired)
    ELSE IF ParseInt(value) <= 0 THEN Some(ErrNotPositive)
    ELSE IF ParseInt(value) > remaining THEN Some(ErrExceeds)
    ELSE None

ShipInit ==
    /\ DashboardIdle
    /\ DynIdle
    /\ PartsIdle
    /\ totalQty \in 1..MaxQty
    /\ shipments = <<>>
    /\ shipmentsProp = <<>>
    /\ showAddDialog = FALSE
    /\ inputQty = ""
    /\ inputError = None

\* Record Partial Shipment button
openAddDialog ==
    /\ ~isComplete(totalQty, shipmentsProp)
    /\ ~showAddDialog
    /\ showAddDialog' = TRUE
    /\ UNCHANGED <<totalQty, shipments, shipmentsProp, inputQty, inputError>>
    /\ UNCHANGED notShip

handleInputChange(value) ==
    /\ showAddDialog
    /\ inputQty' = value
    /\ inputError' = validateQty(value, remainingQty(totalQty, shipmentsProp))
    /\ UNCHANGED <<totalQty, shipments, shipmentsProp, showAddDialog>>
    /\ UNCHANGED notShip

\* Record Shipment button: validate against the remaining quantity of this
\* render, then onAddShipment (usePartialShipments.addShipment)
handleAddShipment ==
    /\ showAddDialog
    /\ inputError = None /\ inputQty # ""
    /\ LET error == validateQty(inputQty, remainingQty(totalQty, shipmentsProp))
       IN  IF error # None
           THEN /\ inputError' = error
                /\ UNCHANGED <<shipments, showAddDialog, inputQty>>
           ELSE /\ Len(shipments) < MaxShipments
                /\ shipments' = Append(shipments, ParseInt(inputQty))
                /\ showAddDialog' = FALSE
                /\ inputQty' = ""
                /\ inputError' = None
    /\ UNCHANGED <<totalQty, shipmentsProp>>
    /\ UNCHANGED notShip

\* Cancel
cancelAddDialog ==
    /\ showAddDialog
    /\ showAddDialog' = FALSE
    /\ inputQty' = ""
    /\ inputError' = None
    /\ UNCHANGED <<totalQty, shipments, shipmentsProp>>
    /\ UNCHANGED notShip

\* the owner of the list renders the tracker with its current shipments
refreshShipments ==
    /\ shipmentsProp # shipments
    /\ shipmentsProp' = shipments
    /\ UNCHANGED <<totalQty, shipments, showAddDialog, inputQty, inputError>>
    /\ UNCHANGED notShip

\* usePartialShipments.clearShipments
clearShipments ==
    /\ shipments # <<>>
    /\ shipments' = <<>>
    /\ UNCHANGED <<totalQty, shipmentsProp, showAddDialog, inputQty, inputError>>
    /\ UNCHANGED notShip

NextShip ==
    \/ openAddDialog
    \/ \E value \in QtyTexts : handleInputChange(value)
    \/ handleAddShipment
    \/ cancelAddDialog
    \/ refreshShipments
    \/ clearShipments

SpecShip == ShipInit /\ [][NextShip]_vars

\* ------------------------------------------------------------------------
\* Properties
\* ------------------------------------------------------------------------
Finalized == lotReleased \/ lotRejected
SomeStatus(s, st) == \E i \in 1..Len(s) : s[i].status = st
EveryStatus(s, st) == \A i \in 1..Len(s) : s[i].status = st
EveryEntered(s) == \A i \in 1..Len(s) : s[i].actual # None
ResetStep == handleEndShift \/ resetSpecs

\* C1: in every reachable state at most one of lotReleased and lotRejected
\* is true.
C1_AtMostOneFlag == ~(lotReleased /\ lotRejected)

\* a lot was released, the session was reset, and the next lot is rejected
C1_Witness == lotRejected /\ ~lotReleased /\ Len(certLog) > 0 /\ Len(specs) > 0

\* C2: a step that sets lotReleased starts from a state with no Fail status
\* and a reading on every spec; an approve taken while some spec is Fail or
\* Pending leaves lotReleased false.
C2_ApproveGuard ==
    [][ /\ (~lotReleased /\ lotReleased')
            => (~SomeStatus(specs, "fail") /\ EveryEntered(specs))
        /\ (handleApprove /\ (SomeStatus(specs, "fail") \/ SomeStatus(specs, "pending")))
            => ~lotReleased' ]_vars

\* two characteristics, both within tolerance, lot released
C2_Witness == lotReleased /\ Len(specs) >= 2 /\ EveryStatus(specs, "pass")

\* C3: the release guard is allPassed, so an approve releases the lot exactly
\* when allPassed holds; in particular an approve on an empty spec list
\* leaves the lot Open.
C3_ReleaseGuardIsAllPassed ==
    [][ (handleApprove /\ Len(certLog) < MaxCertCalls)
          => (lotReleased' <=> allPassed(specs)) ]_vars

C5_RejectUnconditional ==
    /\ []((InspectorViewMounted /\ ~Finalized) => ENABLED openConfirmDialog("reject"))
    /\ []((InspectorViewMounted /\ confirmDialog = "reject") => ENABLED handleReject)
    /\ [][handleReject => (lotRejected' /\ ~lotReleased' /\ specs' = specs)]_vars

\* rejected with every characteristic still Pending
C5_Witness ==
    lotRejected /\ ~lotReleased /\ Len(specs) > 0 /\ EveryStatus(specs, "pending")

\* C6: an approve taken while a spec is Fail or Pending raises exactly one
\* notice, the failures-present one if any spec is Fail and the incomplete
\* one otherwise, and leaves specs, both flags and the certificate log
\* unchanged.
C6_RefusedApprove ==
    [][ (handleApprove /\ (SomeStatus(specs, "fail") \/ SomeStatus(specs, "pending")))
          => /\ notices' = (IF SomeStatus(specs, "fail")
                            THEN <<MsgFailures>> ELSE <<MsgIncomplete>>)
             /\ MsgFailures # MsgIncomplete
             /\ specs' = specs
             /\ lotReleased' = lotReleased
             /\ lotRejected' = lotRejected
             /\ certLog' = certLog ]_vars

\* a refused approve with one Fail and one Pending reports the failure
C6_Witness ==
    /\ notices = <<MsgFailures>>
    /\ SomeStatus(specs, "fail")
    /\ SomeStatus(specs, "pending")
    /\ ~Finalized

\* C7: every step invokes the certificate generator once if it takes the
\* lot from not released to released, and not at all otherwise.
C7_CertOncePerRelease ==
    [][ Len(certLog') = Len(certLog) + (IF ~lotReleased /\ lotReleased' THEN 1 ELSE 0)
      ]_vars

\* a second lot released: two invocations in all
C7_Witness == lotReleased /\ Len(certLog) = 2 /\ Len(specs) > 0

\* C8: when the generator throws in an approve whose guards hold, the lot
\* is Released, the only notice is the certificate error, and nothing
\* escapes the handler.
C8_CertFailureKeepsRelease ==
    [][ (handleApprove /\ ~SomeStatus(specs, "fail") /\ EveryEntered(specs))
          => /\ ~uncaught'
             /\ (Len(certLog') = Len(certLog) + 1 /\ certLog'[Len(certLog')] = "threw")
                  => /\ lotReleased'
                     /\ ~lotRejected'
                     /\ notices' = <<MsgCertError>> ]_vars

\* released although the generator threw
C8_Witness ==
    /\ lotReleased
    /\ Len(specs) > 0
    /\ notices = <<MsgCertError>>
    /\ certLog # <<>>
    /\ certLog[Len(certLog)] = "threw"

\* C9: a step that starts and ends with the lot finalized leaves specs
\* unchanged.
C9_NoEditAfterFinal ==
    [][ (Finalized /\ (lotReleased' \/ lotRejected')) => specs' = specs ]_vars

\* a rejected lot with one reading entered and one missing, seen by the
\* inspector whose inputs are disabled
C9_Witness ==
    /\ lotRejected
    /\ InspectorViewMounted
    /\ InputDisabled
    /\ SomeStatus(specs, "pending")
    /\ ~EveryStatus(specs, "pending")

\* C10: every spec's status is Pending when actual is absent, Pass when
\* min <= actual <= max, Fail otherwise.
C10_StatusIsFunction ==
    \A i \in 1..Len(specs) :
        LET sp == specs[i]
        IN  /\ (sp.actual = None) => sp.status = "pending"
            /\ (sp.actual # None /\ sp.min <= sp.actual[1] /\ sp.actual[1] <= sp.max)
                  => sp.status = "pass"
            /\ (sp.actual # None /\ (sp.actual[1] < sp.min \/ sp.actual[1] > sp.max))
                  => sp.status = "fail"

\* a reading on the lower bound passes and one above the upper bound fails
C10_Witness ==
    \E i, j \in 1..Len(specs) :
        /\ specs[i].actual = Some(specs[i].min) /\ specs[i].status = "pass"
        /\ specs[j].actual # None /\ specs[j].actual[1] > specs[j].max
        /\ specs[j].status = "fail"

\* the template with every reading cleared
Cleared(template) ==
    [i \in 1..Len(template) |->
        [template[i] EXCEPT !.actual = None, !.status = "pending"]]

\* C11: resetSpecs restores the spec list from the original template with
\* every actual absent and every status Pending, whatever was entered before,
\* clears lotReleased and lotRejected, and a second resetSpecs right after
\* changes nothing.
C11_ResetRestoresTemplate ==
    [][ resetSpecs =>
          /\ specs' = Cleared(initialSpecs)
          /\ initialSpecs' = initialSpecs
          /\ EveryStatus(specs', "pending")
          /\ \A i \in 1..Len(specs') : specs'[i].actual = None
          /\ ~lotReleased' /\ ~lotRejected'
          /\ ( (specs = Cleared(initialSpecs) /\ ~Finalized)
                 => UNCHANGED <<initialSpecs, inspectionVars>> ) ]_vars

\* the readings are cleared and no verdict stands although a certificate
\* was issued for this lot earlier
C11_Witness ==
    /\ Len(specs) > 0
    /\ specs = Cleared(initialSpecs)
    /\ ~Finalized
    /\ certLog # <<>>
    /\ scannedLot # None
    /\ currentRole = "inspector"
    /\ notices = <<>>

\* C13: after the end of shift every spec has actual absent and status
\* Pending, lotReleased and lotRejected are false, no lot is scanned and the
\* role is operator.
C13_EndShiftClearsAll ==
    [][ handleEndShift =>
          /\ \A i \in 1..Len(specs') :
                specs'[i].actual = None /\ specs'[i].status = "pending"
          /\ Len(specs') = Len(initialSpecs)
          /\ ~lotReleased' /\ ~lotRejected'
          /\ scannedLot' = None
          /\ isKioskMode'
          /\ currentUser' = None
          /\ currentRole' = "operator" ]_vars

\* the shift has just ended after a lot whose certificate failed
C13_Witness ==
    /\ notices = <<MsgEndShift>>
    /\ Len(specs) > 0
    /\ scannedLot = None
    /\ currentRole = "operator"
    /\ \E k \in 1..Len(certLog) : certLog[k] = "threw"

\* C15: at most one lot lookup is in flight, and one is in flight only
\* while isLoading is set.
C15_OneScanInFlight ==
    /\ Len(scanRequests) <= 1
    /\ (scanRequests # <<>>) => isLoading

\* a lookup is in flight and the search bar refuses a further submission
C15_Witness ==
    /\ isLoading
    /\ Len(scanRequests) = 1
    /\ \A value \in LotInputs : ~ENABLED handleScan(value)

\* C16: a scan of a text with an invalid format ends with the error toast,
\* throws nothing, and leaves scannedLot, isLoading and the lookups in
\* flight as they were: the session is still in kiosk mode and not loading.
C16_InvalidScanRefused ==
    [][ \A value \in LotInputs :
          (handleScan(value) /\ ~isValidLotFormat(UpperCase(Trim(value)))) =>
             /\ notices' = <<MsgScanFail>>
             /\ ~uncaught'
             /\ scannedLot' = scannedLot
             /\ isLoading' = isLoading
             /\ scanRequests' = scanRequests
             /\ isKioskMode'
             /\ ~isLoading' ]_vars

\* the error toast is up in a kiosk that already served a lot before
C16_Witness ==
    /\ notices = <<MsgScanFail>>
    /\ scannedLot = None
    /\ ~isLoading
    /\ scanRequests = <<>>
    /\ certLog # <<>>

\* C20: allPassed is true exactly when the list is non-empty and every spec
\* has status Pass; it is false on the empty list, when hasFailed is true and
\* when some spec is Pending.
C20_AllPassedExact ==
    /\ allPassed(specs) <=> (Len(specs) > 0 /\ EveryStatus(specs, "pass"))
    /\ (Len(specs) = 0) => ~allPassed(specs)
    /\ hasFailed(specs) => ~allPassed(specs)
    /\ SomeStatus(specs, "pending") => ~allPassed(specs)

\* every reading of a list of two is in tolerance and no verdict is given yet
C20_Witness ==
    /\ allPassed(specs)
    /\ Len(specs) >= 2
    /\ ~Finalized

\* C12: updateSpec(id, actual) changes only the actual and the status of the
\* entry whose id matches: the other entries, the length and the order of the
\* list and the matched entry's id, min and max stay, and when no entry has
\* that id the list stays as it is and nothing is thrown.
C12_UpdateSpecFrame ==
    [][ \A id \in SpecIds, actual \in Actuals :
          updateSpecCall(id, actual) =>
             /\ Len(specs') = Len(specs)
             /\ \A i \in 1..Len(specs) :
                   /\ specs'[i].id = specs[i].id
                   /\ specs'[i].min = specs[i].min
                   /\ specs'[i].max = specs[i].max
                   /\ (specs[i].id # id) => specs'[i] = specs[i]
                   /\ (specs[i].id = id) => specs'[i].actual = actual
             /\ (\A i \in 1..Len(specs) : specs[i].id # id) => specs' = specs
             /\ ~uncaught' ]_vars

\* one entry of two carries a failing reading, the other is untouched
C12_Witness ==
    /\ Len(specs) = 2
    /\ specs[1] = initialSpecs[1]
    /\ specs[2].actual = Some(0)
    /\ specs[2].status = "fail"
    /\ scannedLot = None

\* the entries of a value list
Entries(vals) == { vals[k] : k \in 1..Len(vals) }

\* C14: no edit is lost: after an updateValue on one field, the entries the
\* Inspection Value list held for the other fields are still in the list,
\* also when the form has not rendered since the edit before.
C14_NoEditLost ==
    [][ \A i \in 1..Len(fields) : \A newValue \in InputsFor(fields[i]) :
          updateValue(fields[i].id, newValue, fields[i]) =>
             \A e \in Entries(values) :
                (e.fieldId # fields[i].id) => e \in Entries(values') ]_vars

\* C17: a persistence write that throws is caught: no exception leaves the
\* provider's effects, whatever create, update or delete was committed.
C17_FailedWriteCaught ==
    [][ (~pcLoading /\ (parts' # parts \/ revisions' # revisions))
           => ~effectThrew' ]_vars

\* C18: once loading has finished and while every write has succeeded, the
\* stored copies are the serialised in-memory lists, also after the last
\* part was deleted.
C18_StoredEqualsMemory ==
    (~pcLoading /\ ~effectThrew) =>
        /\ storedParts = Some(Stringify(parts))
        /\ storedRevisions = Some(Stringify(revisions))

\* a step that makes the role inspector is an authenticate call whose PIN
\* and target role match a credential
InspectorOnlyByCredential ==
    (currentRole # "inspector" /\ currentRole' = "inspector") =>
        \E pin \in Pins :
           /\ handleAuthenticate(pin, "inspector")
           /\ \E c \in MOCK_CREDENTIALS : c.pin = pin /\ c.role = "inspector"
           /\ currentUser' # None

\* C19 as stated: the spec values and the two flags change only while the
\* current role is inspector, and the role becomes inspector only through a
\* matching authenticate call.
C19_ChangesOnlyAsInspector ==
    [][ /\ (inspectionVars' # inspectionVars) => currentRole = "inspector"
        /\ InspectorOnlyByCredential ]_vars

\* C19 amended: apart from the end of shift, which every role can trigger
\* once a lot is scanned and which only clears the readings and the flags,
\* the spec values and the two flags change only while the current role is
\* inspector; the role becomes inspector only through a matching
\* authenticate call.
C19_ChangesOnlyAsInspectorOrEndShift ==
    [][ /\ (inspectionVars' # inspectionVars /\ ~handleEndShift)
              => (currentRole = "inspector" /\ currentRole' = "inspector")
        /\ (inspectionVars' # inspectionVars /\ handleEndShift)
              => (specs' = Cleared(initialSpecs) /\ ~lotReleased' /\ ~lotRejected')
        /\ InspectorOnlyByCredential ]_vars

\* the authenticated inspector has entered a failing reading and rejected
\* the lot
C19_Witness ==
    /\ currentRole = "inspector"
    /\ currentUser = Some([name |-> "Inspector", role |-> "inspector"])
    /\ SomeStatus(specs, "fail")
    /\ lotRejected
    /\ notices = <<MsgRejected>>

\* the stored entries of the fields of one type, paired with their field
TypedEntries(type) ==
    { <<values[k], fields[i]>> : k \in 1..Len(values), i \in 1..Len(fields) }
      \cap { p \in Entries(values) \X Entries(fields) :
                p[1].fieldId = p[2].id /\ p[2].type = type }

\* C21: a Numeric field with a value present is Pass exactly when (min is
\* undefined or value >= min) and (max is undefined or value <= max), and
\* Fail otherwise; an absent value is Pending.
C21_NumericStatus ==
    /\ \A p \in TypedEntries("numeric") :
          LET e == p[1]
              f == p[2]
              inRange == /\ (f.min = None \/ e.value.n >= f.min[1])
                         /\ (f.max = None \/ e.value.n <= f.max[1])
          IN  /\ (e.value = Null) => e.status = "pending"
              /\ (e.value # Null /\ inRange) => e.status = "pass"
              /\ (e.value # Null /\ ~inRange) => e.status = "fail"
    /\ \A i \in 1..Len(fields) :
          (fields[i].type = "numeric" /\ getValue(values, fields[i].id).value = Null)
             => getValue(values, fields[i].id).status = "pending"

\* a field with only max defined passes with a reading below every min
\* of the model, next to a field with both bounds that fails below its min
C21_Witness ==
    \E p, q \in TypedEntries("numeric") :
       /\ p[2].min = None /\ p[1].value = Num(0) /\ p[1].status = "pass"
       /\ q[2].min = Some(1) /\ q[1].value = Num(0) /\ q[1].status = "fail"

\* C22: a Select field is Pass when a non-empty value is chosen and Pending
\* when none is, required or not; it is never Fail.
C22_SelectStatus ==
    /\ \A p \in TypedEntries("select") :
          LET e == p[1]
          IN  /\ (e.value # Null /\ e.value # Str("")) => e.status = "pass"
              /\ (e.value = Null \/ e.value = Str("")) => e.status = "pending"
              /\ e.status # "fail"
    /\ \A i \in 1..Len(fields) :
          fields[i].type = "select" => getValue(values, fields[i].id).status # "fail"

\* a required field whose choice was cleared next to an optional one with
\* a choice
C22_Witness ==
    \E p, q \in TypedEntries("select") :
       /\ p[2].required /\ p[1].value \in {Null, Str("")} /\ p[1].status = "pending"
       /\ ~q[2].required /\ q[1].value = Str("A") /\ q[1].status = "pass"

\* C23: a Boolean field is Pass when the value is true, Fail when it is
\* false and Pending when it is absent, and nothing else.
C23_BooleanStatus ==
    /\ \A p \in TypedEntries("boolean") :
          LET e == p[1]
          IN  /\ e.value \in {Null, Bool(TRUE), Bool(FALSE)}
              /\ (e.value = Bool(TRUE)) <=> (e.status = "pass")
              /\ (e.value = Bool(FALSE)) <=> (e.status = "fail")
              /\ (e.value = Null) <=> (e.status = "pending")
    /\ \A i \in 1..Len(fields) :
          (fields[i].type = "boolean" /\ getValue(values, fields[i].id).value = Null)
             => getValue(values, fields[i].id).status = "pending"

\* one switch is on and another is off
C23_Witness ==
    \E p, q \in TypedEntries("boolean") :
       /\ p[1].value = Bool(TRUE) /\ p[1].status = "pass"
       /\ q[1].value = Bool(FALSE) /\ q[1].status = "fail"

\* no two entries of a value list share a fieldId
OnePerField(vals) ==
    \A j, k \in 1..Len(vals) : vals[j].fieldId = vals[k].fieldId => j = k

\* C24: after an updateValue the list holds at most one entry per fieldId,
\* the edited field's fresh entry is last, and the entries of the other
\* fields precede it in the order they had.
C24_OnePerFieldLastEdited ==
    [][ \A i \in 1..Len(fields) : \A newValue \in InputsFor(fields[i]) :
          updateValue(fields[i].id, newValue, fields[i]) =>
             /\ OnePerField(values')
             /\ Len(values') > 0
             /\ values'[Len(values')].fieldId = fields[i].id
             /\ values'[Len(values')].value = newValue
             /\ SubSeq(values', 1, Len(values') - 1)
                   = WithoutField(closureValues, fields[i].id) ]_vars

\* the second field was edited before the first: the list is in edit order
C24_Witness ==
    /\ Len(fields) = 2
    /\ Len(values) = 2
    /\ values[1].fieldId = fields[2].id
    /\ values[2].fieldId = fields[1].id

\* C25: an updateValue repeated with the same arguments gives the list the
\* first one gave: applied to its own result it returns that result, and
\* when the list already ends with this very edit the step changes nothing.
C25_UpdateValueIdempotent ==
    [][ \A i \in 1..Len(fields) : \A newValue \in InputsFor(fields[i]) :
          updateValue(fields[i].id, newValue, fields[i]) =>
             /\ updateValueResult(values', fields[i].id, newValue, fields[i])
                   = values'
             /\ ( /\ closureValues = values
                  /\ Len(values) > 0
                  /\ values[Len(values)].fieldId = fields[i].id
                  /\ values[Len(values)].value = newValue )
                  => values' = values ]_vars

\* the form has rendered a list of two entries that ends with a failing
\* reading: entering that reading again is the repeated update
C25_Witness ==
    /\ closureValues = values
    /\ Len(values) = 2
    /\ values[2].status = "fail"
    /\ values[2].value = Num(0)

\* C26: total is the length of the field list, completed counts the
\* non-Pending values, allInspected = (completed = total), allPass =
\* allInspected and failed = 0 and total > 0; allPass is false for an empty
\* field list.
C26_DynamicAggregate ==
    LET total == Len(fields)
        completed == Cardinality({k \in 1..Len(values) : values[k].status # "pending"})
        failed == Cardinality({k \in 1..Len(values) : values[k].status = "fail"})
    IN  /\ statsTotal(fields) = total
        /\ statsCompleted(values) = completed
        /\ statsFailed(values) = failed
        /\ statsAllInspected(fields, values) <=> (completed = total)
        /\ statsAllPass(fields, values)
              <=> (completed = total /\ failed = 0 /\ total > 0)
        /\ (Len(fields) = 0) => ~statsAllPass(fields, values)

\* both fields of a list of two hold passing values
C26_Witness ==
    /\ Len(fields) = 2
    /\ statsAllPass(fields, values)
    /\ statsPassed(values) = 2

\* C27: whenever allPass is true every field of the current list has a
\* stored value with status Pass, and whenever allInspected is true no field
\* of the list is Pending, also after the field list has changed.
C27_AllPassCoversEveryField ==
    /\ statsAllPass(fields, values) =>
          \A i \in 1..Len(fields) :
             \E k \in 1..Len(values) :
                values[k].fieldId = fields[i].id /\ values[k].status = "pass"
    /\ statsAllInspected(fields, values) =>
          \A i \in 1..Len(fields) :
             getValue(values, fields[i].id).status # "pending"

\* C28: after handleCreateRevision the revision just created holds the
\* part's current fields and the part's currentRevision names it.
C28_RevisionHoldsSavedFields ==
    [][ \A id \in PartIds, fs \in PartFieldLists :
          handleCreateRevision(id, fs) =>
             LET part == PartById(parts', id)
                 created == revisions'[Len(revisions')]
             IN  /\ created.partConfigId = id
                 /\ created.revision = part.currentRevision
                 /\ created.fields = part.fields ]_vars

\* the user is absent exactly for the operator role and otherwise carries
\* the current role
UserMatchesRole ==
    /\ (currentUser = None) <=> (currentRole = "operator")
    /\ (currentUser # None) => currentUser[1].role = currentRole

\* C30: before and after every step the current user is absent exactly
\* when the role is operator and otherwise has the current role; an
\* authenticate call with no credential for that PIN and role changes
\* neither.
C30_UserMatchesRole ==
    [][ /\ UserMatchesRole
        /\ UserMatchesRole'
        /\ \A pin \in Pins, targetRole \in Roles :
            ( /\ handleAuthenticate(pin, targetRole)
              /\ ~\E c \in MOCK_CREDENTIALS : c.pin = pin /\ c.role = targetRole )
              => ( /\ currentRole' = currentRole
                   /\ currentUser' = currentUser
                   /\ notices' = <<MsgAuthFail>> ) ]_vars

\* the signed-in manager has just been refused the inspector role
C30_Witness ==
    /\ currentRole = "manager"
    /\ currentUser = Some([name |-> "Manager", role |-> "manager"])
    /\ notices = <<MsgAuthFail>>

\* C29: every recorded quantity is a positive integer and the recorded
\* quantities never add up to more than the order's total quantity.
C29_ShipmentsWithinOrder ==
    /\ \A k \in 1..Len(shipments) : shipments[k] \in Nat /\ shipments[k] > 0
    /\ SumQty(shipments) <= totalQty
    /\ remainingQty(totalQty, shipments) >= 0

====
